---- MODULE Spec2Model ----
(***************************************************************************)
(* A model of the Searchbase core (src/src/index.js): one instance of the  *)
(* class, its setters, the query recomputation, the request pipeline, the  *)
(* beforeValueChange gate and the voice-search state machine.              *)
(*                                                                         *)
(* JavaScript values are tagged records, so that undefined, null, numbers, *)
(* strings, booleans and objects can be told apart and compared.           *)
(***************************************************************************)
EXTENDS Integers, Sequences, FiniteSets, TLC

VARIABLES
  this,      \* the fields of the Searchbase instance
  trace,     \* the effects of the last handler, in the order they happened
  inflight,  \* the requests whose promise has not settled yet
  hooks,     \* the beforeValueChange promises that have not settled yet
  sessions,  \* the SpeechRecognition objects created so far
  issued,    \* the number of requests issued so far
  calls      \* the number of calls made on the instance since construction

vars == <<this, trace, inflight, hooks, sessions, issued, calls>>

---------------------------------------------------------------------------
(* Bounds of the model *)

MaxCalls == 2
MaxPipeCalls == 2
MaxGateCalls == 2
MaxClicks == 3

---------------------------------------------------------------------------
(* JavaScript values *)

Undefined == [t |-> "undefined"]
Null == [t |-> "null"]
NaN == [t |-> "NaN"]
Str(s) == [t |-> "string", s |-> s]
Num(n) == [t |-> "number", n |-> n]
Bool(b) == [t |-> "boolean", b |-> b]
Arr(a) == [t |-> "array", a |-> a]
Obj(f) == [t |-> "object", f |-> f]
Function == [t |-> "function"]

JTrue == Bool(TRUE)
JFalse == Bool(FALSE)
EmptyObj == Obj(<<>>)

\* ToBoolean: the values that an `if`, `||` or `&&` takes as true
Truthy(v) ==
  CASE v.t = "undefined" -> FALSE
    [] v.t = "null" -> FALSE
    [] v.t = "NaN" -> FALSE
    [] v.t = "string" -> v.s # ""
    [] v.t = "number" -> v.n # 0
    [] v.t = "boolean" -> v.b
    [] OTHER -> TRUE

\* Number(v), for the values the model passes to it
NumericStrings == ("20" :> 20)

ToNumber(v) ==
  CASE v.t = "number" -> v
    [] v.t = "null" -> Num(0)
    [] v.t = "boolean" -> Num(IF v.b THEN 1 ELSE 0)
    [] v.t = "string" ->
         IF v.s = "" THEN Num(0)
         ELSE IF v.s \in DOMAIN NumericStrings THEN Num(NumericStrings[v.s])
         ELSE NaN
    [] OTHER -> NaN

\* !v
Not(v) == Bool(~Truthy(v))

\* a || b
Or(a, b) == IF Truthy(a) THEN a ELSE b

\* o[k] of an object, undefined when the key is absent
Get(o, k) == IF o.t = "object" /\ k \in DOMAIN o.f THEN o.f[k] ELSE Undefined

\* the name of the computed key { [v]: ... }
PropertyKey(v) == IF v.t = "string" THEN v.s ELSE v.t

\* {...a, ...b}: the keys of b win, one by one
Spread(a, b) ==
  Obj([k \in DOMAIN a.f \cup DOMAIN b.f |->
         IF k \in DOMAIN b.f THEN b.f[k] ELSE a.f[k]])

\* const { query, ...rest } = o
Rest(o, k) == Obj([x \in DOMAIN o.f \ {k} |-> o.f[x]])

\* JSON.stringify: undefined has no serialization, and a key whose value is
\* undefined is left out of the text
Stringify(v) ==
  IF v.t = "undefined" THEN Undefined
  ELSE IF v.t = "object"
  THEN [t |-> "json",
        f |-> [k \in {x \in DOMAIN v.f : v.f[x].t # "undefined"} |-> v.f[k]]]
  ELSE [t |-> "json", f |-> <<>>]

---------------------------------------------------------------------------
(* Program constants *)

MIC_INACTIVE == Str("INACTIVE")
MIC_STOPPED == Str("STOPPED")
MIC_ACTIVE == Str("ACTIVE")
MIC_DENIED == Str("DENIED")

DefaultSize == 10
SuggestionsSize == 10

defaultOptions == Obj("triggerQuery" :> JTrue @@ "stateChanges" :> JTrue)
defaultOption == Obj("stateChanges" :> JTrue)

---------------------------------------------------------------------------
(* Static methods: the query builder *)

\* the name of one field of a multi_match: `field^weight`, the weight left
\* out when it is zero or undefined
FieldName(dataField) ==
  IF dataField.t = "object"
  THEN LET weight == Get(dataField, "weight")
       IN Str(Get(dataField, "field").s
              \o (IF Truthy(weight) THEN "^" \o ToString(weight.n) ELSE ""))
  ELSE dataField

MultiMatch(value, fields, type, operator) ==
  Obj("query" :> value @@ "fields" :> fields
      @@ "type" :> Str(type) @@ "operator" :> Str(operator))

ShouldClauses(value, fields, options) ==
  IF Truthy(Get(options, "searchOperators"))
  THEN Obj("query" :> value @@ "fields" :> fields
           @@ "default_operator" :> Get(options, "queryFormat"))
  ELSE IF Get(options, "queryFormat") = Str("and")
  THEN Arr(<<
         Obj("multi_match" :> MultiMatch(value, fields, "cross_fields", "and")),
         Obj("multi_match" :> MultiMatch(value, fields, "phrase_prefix", "and"))
       >>)
  ELSE Arr(<<
         Obj("multi_match" :>
               Spread(MultiMatch(value, fields, "best_fields", "or"),
                      Obj("fuzziness" :> Get(options, "fuzziness")))),
         Obj("multi_match" :> MultiMatch(value, fields, "phrase_prefix", "or"))
       >>)

shouldQuery(value, dataFields, options) ==
  ShouldClauses(value,
                Arr([i \in DOMAIN dataFields |-> FieldName(dataFields[i])]),
                options)

\* the nested wrapper of defaultQuery
Nested(finalQuery, nestedField) ==
  IF Truthy(finalQuery) /\ Truthy(nestedField)
  THEN Obj("nested" :> Obj("path" :> nestedField @@ "query" :> finalQuery))
  ELSE finalQuery

\* the dataField option as an array
FieldsOf(dataField) ==
  IF dataField.t = "array" THEN dataField.a ELSE <<dataField>>

defaultQuery(value, options) ==
  Nested(
    IF value = Str("") THEN Null
    ELSE IF Truthy(value)
    THEN IF Truthy(Get(options, "searchOperators"))
         THEN Obj("simple_query_string"
                  :> shouldQuery(value, FieldsOf(Get(options, "dataField")), options))
         ELSE Obj("bool"
                  :> Obj("should" :> shouldQuery(value,
                                       FieldsOf(Get(options, "dataField")), options)
                         @@ "minimum_should_match" :> Str("1")))
    ELSE Null,
    Get(options, "nestedField"))

\* finalOptions.k = v, when the condition holds
With(o, cond, k, v) == IF cond THEN Spread(o, Obj(k :> v)) ELSE o

SourceOf(includeFields, excludeFields) ==
  With(With(EmptyObj, Truthy(includeFields), "includes", includeFields),
       Truthy(excludeFields), "excludes", excludeFields)

SortOf(sortOptions, sortBy, sortByField) ==
  IF Truthy(sortOptions)
  THEN Arr(<<Obj(PropertyKey(Get(sortOptions.a[1], "dataField"))
                 :> Obj("order" :> Get(sortOptions.a[1], "sortBy")))>>)
  ELSE Arr(<<Obj(PropertyKey(sortByField) :> Obj("order" :> sortBy))>>)

generateQueryOptions(options) ==
  With(With(With(With(EmptyObj,
    Get(options, "size") # Undefined, "size", Get(options, "size")),
    Get(options, "from") # Undefined, "from", Get(options, "from")),
    Truthy(Get(options, "includeFields")) \/ Truthy(Get(options, "excludeFields")),
    "_source",
    SourceOf(Get(options, "includeFields"), Get(options, "excludeFields"))),
    Truthy(Get(options, "sortOptions"))
    \/ (Truthy(Get(options, "sortBy")) /\ Truthy(Get(options, "sortByField"))),
    "sort",
    SortOf(Get(options, "sortOptions"), Get(options, "sortBy"),
           Get(options, "sortByField")))

---------------------------------------------------------------------------
(* The effects of a handler.  A handler is an operator from a world (the   *)
(* instance and everything around it) to the world it leaves behind; an    *)
(* action commits the world of one handler.                                *)

World == [this |-> this, trace |-> <<>>, inflight |-> inflight,
          hooks |-> hooks, sessions |-> sessions, issued |-> issued,
          calls |-> calls]

Commit(w) ==
  /\ this' = w.this
  /\ trace' = w.trace
  /\ inflight' = w.inflight
  /\ hooks' = w.hooks
  /\ sessions' = w.sessions
  /\ issued' = w.issued

Emit(w, e) == [w EXCEPT !.trace = Append(@, e)]

Set(w, field, v) == [w EXCEPT !.this[field] = v]

\* the sequence q without its i-th element
RemoveAt(q, i) == SubSeq(q, 1, i - 1) \o SubSeq(q, i + 1, Len(q))

\* Results (src/Results.js): the wrapper of the raw response data
NewResults(data) == [t |-> "Results", raw |-> data]
setRaw(results, raw) == [results EXCEPT !.raw = raw]

\* the callback that _applyOptions invokes for a key, with its arguments
CallbackOf(key, prevValue, nextValue) ==
  CASE key = "micStatus" ->
         <<[e |-> "callback", name |-> "onMicStatusChange",
            args |-> <<prevValue, nextValue>>]>>
    [] key = "value" ->
         <<[e |-> "callback", name |-> "onValueChange",
            args |-> <<prevValue, nextValue>>]>>
    [] key = "error" ->
         <<[e |-> "callback", name |-> "onError", args |-> <<prevValue>>]>>
    [] key = "suggestionsError" ->
         <<[e |-> "callback", name |-> "onSuggestionsError",
            args |-> <<prevValue>>]>>
    [] key = "results" ->
         <<[e |-> "callback", name |-> "onResults",
            args |-> <<prevValue, nextValue>>]>>
    [] key = "suggestions" ->
         <<[e |-> "callback", name |-> "onSuggestions",
            args |-> <<prevValue, nextValue>>]>>
    [] OTHER -> <<>>

\* analytics headers chosen by the session id alone
AnalyticsHeadersByIdAlone(_searchId, value) ==
  IF Truthy(_searchId)
  THEN Obj("X-Search-Id" :> _searchId)
  ELSE Obj("X-Search-Query" :> value)

\* the analytics headers of _fetchRequest
AnalyticsHeaders(_searchId, value) ==
  IF Truthy(_searchId)
  THEN Obj("X-Search-Id" :> _searchId @@ "X-Search-Query" :> value)
  ELSE IF Truthy(value)
  THEN Obj("X-Search-Query" :> value)
  ELSE EmptyObj

\* the requestOptions of _fetchRequest
RequestOptions(w, requestBody) ==
  Obj("method" :> Str("POST")
      @@ "body" :> Stringify(requestBody)
      @@ "headers" :> Spread(w.this.headers,
                             AnalyticsHeaders(w.this._searchId, w.this.value)))

\* the promise of _fetchRequest: it waits for the transformRequest hook or,
\* without a hook, for the network
Pending(w, kind, options, requestOptions, hooked) ==
  [w EXCEPT
     !.issued = @ + 1,
     !.inflight = Append(@,
        [seq |-> w.issued + 1,
         kind |-> kind,
         stateChanges |-> Get(options, "stateChanges"),
         stage |-> IF hooked THEN "transformRequest" ELSE "fetch",
         request |-> requestOptions,
         res |-> Undefined,
         data |-> Undefined]),
     !.trace = @ \o <<[e |-> "request", seq |-> w.issued + 1, kind |-> kind,
                       options |-> requestOptions]>>
                 \o (IF hooked THEN <<>>
                     ELSE <<[e |-> "fetch", seq |-> w.issued + 1,
                             options |-> requestOptions]>>)]

\* _fetchRequest up to the point where it waits: the request options are
\* built from the state at the call
FetchRequest(w, kind, options, requestBody) ==
  Pending(w, kind, options, RequestOptions(w, requestBody),
          Truthy(w.this.transformRequest))

triggerQuery(w, options) == FetchRequest(w, "results", options, w.this._query)

triggerSuggestionsQuery(w, options) ==
  FetchRequest(w, "suggestions", options, w.this._suggestionsQuery)

\* the three steps of _applyOptions
Notify(w, key, prevValue, nextValue) ==
  IF w.this.callbacks
  THEN [w EXCEPT !.trace = @ \o CallbackOf(key, prevValue, nextValue)]
  ELSE w

\* Trigger with the triggerQuery flag ignored
TriggerAlways(w, options) == triggerQuery(w, defaultOption)

Trigger(w, options) ==
  IF Truthy(Get(options, "triggerQuery"))
  THEN triggerQuery(w, defaultOption)
  ELSE w

Publish(w, options, key, prevValue, nextValue) ==
  IF Truthy(Get(options, "stateChanges"))
  THEN Emit(w, [e |-> "publish", key |-> key,
                prev |-> prevValue, next |-> nextValue])
  ELSE w

\* _applyOptions that publishes before it triggers the request
_applyOptionsPublishFirst(w, options, key, prevValue, nextValue) ==
  Trigger(Publish(Notify(w, key, prevValue, nextValue),
                  options, key, prevValue, nextValue),
          options)

_applyOptions(w, options, key, prevValue, nextValue) ==
  Publish(Trigger(Notify(w, key, prevValue, nextValue), options),
          options, key, prevValue, nextValue)

---------------------------------------------------------------------------
(* Query recomputation *)

\* the default query before the query of the owner
FinalQueryDefaultFirst(w, query) ==
  Or(defaultQuery(w.this.value, Obj(
       "dataField" :> w.this.dataField
       @@ "searchOperators" :> w.this.searchOperators
       @@ "queryFormat" :> w.this.queryFormat
       @@ "fuzziness" :> w.this.fuzziness
       @@ "nestedField" :> w.this.nestedField)),
     Or(query, Obj("match_all" :> EmptyObj)))

\* query || defaultQuery(...) || { match_all: {} }
FinalQuery(w, query) ==
  Or(query,
     Or(defaultQuery(w.this.value, Obj(
          "dataField" :> w.this.dataField
          @@ "searchOperators" :> w.this.searchOperators
          @@ "queryFormat" :> w.this.queryFormat
          @@ "fuzziness" :> w.this.fuzziness
          @@ "nestedField" :> w.this.nestedField)),
        Obj("match_all" :> EmptyObj)))

\* the options of the owner in place of the generated ones
EffectiveReplaces(finalQuery, finalQueryOptions, queryOptions) ==
  Spread(Obj("query" :> finalQuery),
         IF queryOptions.t = "object" /\ DOMAIN queryOptions.f # {}
         THEN queryOptions ELSE finalQueryOptions)

\* { query: finalQuery, ...finalQueryOptions, ...queryOptions }
Effective(finalQuery, finalQueryOptions, queryOptions) ==
  Spread(Spread(Obj("query" :> finalQuery), finalQueryOptions),
         IF queryOptions.t = "object" THEN queryOptions ELSE EmptyObj)

_updateQuery(w, query, queryOptions) ==
  Set(w, "_query",
      Effective(FinalQuery(w, query),
                generateQueryOptions(Obj(
                  "excludeFields" :> w.this.excludeFields
                  @@ "includeFields" :> w.this.includeFields
                  @@ "size" :> w.this.size
                  @@ "from" :> w.this.from
                  @@ "sortBy" :> w.this.sortBy
                  @@ "sortByField" :> w.this.sortByField
                  @@ "sortOptions" :> w.this.sortOptions)),
                queryOptions))

_updateSuggestionsQuery(w, query, queryOptions) ==
  Set(w, "_suggestionsQuery",
      Effective(FinalQuery(w, query),
                generateQueryOptions(Obj("size" :> Num(SuggestionsSize))),
                queryOptions))

---------------------------------------------------------------------------
(* Setters *)

setHeaders(w, headers, options) ==
  _applyOptions(Set(w, "headers", Spread(w.this.headers, headers)), options,
                "headers", w.this.headers, Spread(w.this.headers, headers))

setSize(w, size, options) ==
  _applyOptions(Set(w, "size", size), options, "size", w.this.size, size)

setFrom(w, from, options) ==
  _applyOptions(Set(w, "from", from), options, "from", w.this.from, from)

setFuzziness(w, fuzziness, options) ==
  _applyOptions(Set(w, "fuzziness", fuzziness), options, "fuzziness",
                w.this.fuzziness, fuzziness)

setIncludeFields(w, includeFields, options) ==
  _applyOptions(Set(w, "includeFields", includeFields), options,
                "includeFields", w.this.includeFields, includeFields)

setExcludeFields(w, excludeFields, options) ==
  _applyOptions(Set(w, "excludeFields", excludeFields), options,
                "excludeFields", w.this.excludeFields, excludeFields)

setSortBy(w, sortBy, options) ==
  _applyOptions(Set(w, "sortBy", sortBy), options, "sortBy",
                w.this.sortBy, sortBy)

setSortByField(w, sortByField, options) ==
  _applyOptions(Set(w, "sortByField", sortByField), options, "sortByField",
                w.this.sortByField, sortByField)

setNestedField(w, nestedField, options) ==
  _applyOptions(Set(w, "nestedField", nestedField), options, "nestedField",
                w.this.nestedField, nestedField)

setDataField(w, dataField, options) ==
  _applyOptions(Set(w, "dataField", dataField), options, "dataField",
                w.this.dataField, dataField)

\* _syncQueryOptions: the argument is the options object of the sync itself
_syncQueryOptions(w, queryOptions) ==
  IF Get(queryOptions, "size") # Undefined
  THEN setSize(w, Get(queryOptions, "size"), queryOptions)
  ELSE w

\* the default argument of _syncQueryOptions
syncQueryOptionsDefault ==
  Obj("triggerQuery" :> JFalse @@ "stateChanges" :> JTrue)

\* the default parameter and `queryTobeSet || {}` of the two query setters
QueryTobeSet(queryTobeSet) ==
  Or(IF queryTobeSet = Undefined THEN EmptyObj ELSE queryTobeSet, EmptyObj)

\* set query(queryTobeSet = {})
QuerySetter(w, queryTobeSet) ==
  _syncQueryOptions(
    _updateQuery(w, Get(QueryTobeSet(queryTobeSet), "query"),
                 Rest(QueryTobeSet(queryTobeSet), "query")),
    syncQueryOptionsDefault)

\* set suggestionsQuery(queryTobeSet = {})
SuggestionsQuerySetter(w, queryTobeSet) ==
  _updateSuggestionsQuery(w, Get(QueryTobeSet(queryTobeSet), "query"),
                          Rest(QueryTobeSet(queryTobeSet), "query"))

\* _applyOptions(options, key, prev, this[key]) after a query setter ran
ApplyField(w, options, key, field, prevValue) ==
  _applyOptions(w, options, key, prevValue, w.this[field])

setQuery(w, query, options) ==
  ApplyField(QuerySetter(w, query), options, "query", "_query", w.this._query)

setSuggestionsQuery(w, suggestionsQuery, options) ==
  ApplyField(SuggestionsQuerySetter(w, suggestionsQuery), options,
             "suggestionsQuery", "_suggestionsQuery", w.this._suggestionsQuery)

\* the body of setValue that assigns: at once without a beforeValueChange
\* hook, when the hook's promise resolves with one
performUpdate(w, value, options) ==
  _applyOptions(Set(w, "value", value), options, "value", w.this.value, value)

\* setValue that does not wait for the hook
setValueAtOnce(w, value, options) == performUpdate(w, value, options)

setValue(w, value, options) ==
  IF Truthy(w.this.beforeValueChange)
  THEN [w EXCEPT !.hooks = Append(@, [n |-> w.calls + 1, value |-> value,
                                      options |-> options]),
                 !.trace = Append(@, [e |-> "beforeValueChange",
                                      value |-> value])]
  ELSE performUpdate(w, value, options)

\* setResults that hands its options on as they are
setResultsWithOptions(w, results, options) ==
  IF Truthy(results)
  THEN _applyOptions(Set(w, "results", NewResults(results)), options,
                     "results", w.this.results, NewResults(results))
  ELSE w

setResults(w, results, options) ==
  IF Truthy(results)
  THEN _applyOptions(Set(w, "results", NewResults(results)),
                     Obj("triggerQuery" :> JFalse
                         @@ "stateChanges" :> Get(options, "stateChanges")),
                     "results", w.this.results, NewResults(results))
  ELSE w

setSuggestions(w, suggestions, options) ==
  IF Truthy(suggestions)
  THEN _applyOptions(Set(w, "suggestions", NewResults(suggestions)),
                     Obj("triggerQuery" :> JFalse
                         @@ "stateChanges" :> Get(options, "stateChanges")),
                     "suggestions", w.this.suggestions, NewResults(suggestions))
  ELSE w

---------------------------------------------------------------------------
(* The request pipeline: what happens when a promise of _fetchRequest,     *)
(* of a hook or of the network settles                                     *)

_setError(w, error, options) ==
  _applyOptions(Set(w, "error", error), options, "error", w.this.error, error)

_setSuggestionsError(w, suggestionsError, options) ==
  _applyOptions(Set(w, "suggestionsError", suggestionsError), options,
                "suggestionsError", w.this.suggestionsError, suggestionsError)

\* { triggerQuery: false, stateChanges: options.stateChanges }
NoTrigger(stateChanges) ==
  Obj("triggerQuery" :> JFalse @@ "stateChanges" :> stateChanges)

\* a then-handler that clears the error of its pipeline
ThenClearsError(w, kind, stateChanges, response) ==
  _applyOptions(Set(Set(w, IF kind = "results" THEN "error"
                           ELSE "suggestionsError", Undefined),
                    kind, setRaw(w.this[kind], response)),
                NoTrigger(stateChanges), kind,
                setRaw(w.this[kind], response), setRaw(w.this[kind], response))

\* the then-handler of triggerQuery / triggerSuggestionsQuery: `prev` is the
\* very object that setRaw has just changed
Then(w, kind, stateChanges, response) ==
  _applyOptions(Set(w, kind, setRaw(w.this[kind], response)),
                NoTrigger(stateChanges), kind,
                setRaw(w.this[kind], response), setRaw(w.this[kind], response))

\* a catch-handler that only logs
CatchLogs(w, kind, stateChanges, err) ==
  Emit(w, [e |-> "console.error", value |-> err])

\* the catch-handler of triggerQuery / triggerSuggestionsQuery
Catch(w, kind, stateChanges, err) ==
  Emit(IF kind = "results"
       THEN _setError(w, err, NoTrigger(stateChanges))
       ELSE _setSuggestionsError(w, err, NoTrigger(stateChanges)),
       [e |-> "console.error", value |-> err])

\* resolve(response) and reject(reason) of the promise of _fetchRequest
Resolve(w, r, response) ==
  Then(Emit(w, [e |-> "resolve", seq |-> r.seq, kind |-> r.kind,
                value |-> response]),
       r.kind, r.stateChanges, response)

Reject(w, r, reason) ==
  Catch(Emit(w, [e |-> "reject", seq |-> r.seq, kind |-> r.kind,
                 value |-> reason]),
        r.kind, r.stateChanges, reason)

\* settling one request cancels the others
DropAll(w, i) == [w EXCEPT !.inflight = <<>>]

\* the world without / with a changed i-th request in flight
Drop(w, i) == [w EXCEPT !.inflight = RemoveAt(@, i)]

\* the response object of fetch
Response(status, searchId) ==
  [t |-> "Response", status |-> status, searchId |-> searchId]

\* the transformRequest hook resolved with finalRequestOptions: fetch is called
FetchCalled(w, i, finalRequestOptions) ==
  Emit([w EXCEPT !.inflight[i].stage = "fetch",
                 !.inflight[i].request = finalRequestOptions],
       [e |-> "fetch", seq |-> w.inflight[i].seq,
        options |-> finalRequestOptions])

\* a then-handler of fetch that calls the network again on a failed status
FetchThenRetries(w, i, res) ==
  IF res.status >= 400
  THEN Emit(Set(w, "_searchId", Or(res.searchId, Null)),
            [e |-> "fetch", seq |-> w.inflight[i].seq,
             options |-> w.inflight[i].request])
  ELSE [Set(w, "_searchId", Or(res.searchId, Null)) EXCEPT
          !.inflight[i].stage = "json", !.inflight[i].res = res]

\* the then-handler of fetch (src lines 711-725)
FetchThen(w, i, res) ==
  IF res.status >= 400
  THEN Reject(Drop(Set(w, "_searchId", Or(res.searchId, Null)), i),
              w.inflight[i], res)
  ELSE [Set(w, "_searchId", Or(res.searchId, Null)) EXCEPT
          !.inflight[i].stage = "json", !.inflight[i].res = res]

\* the then-handler without the test for an `error` key
TransformedThenAccepts(w, i, transformedData) ==
  Resolve(Drop(w, i), w.inflight[i], transformedData)

\* the then-handler of _handleTransformResponse (src lines 727-743)
TransformedThen(w, i, transformedData) ==
  IF Truthy(transformedData) /\ "error" \in DOMAIN transformedData.f
  THEN Reject(Drop(w, i), w.inflight[i], transformedData)
  ELSE Resolve(Drop(w, i), w.inflight[i],
               Spread(IF transformedData.t = "object" THEN transformedData
                      ELSE EmptyObj,
                      Obj("_timestamp" :> Str("Date.now()")
                          @@ "_headers" :> w.inflight[i].res.searchId)))

\* the then-handler of res.json(): the transformResponse hook is called, or
\* the data goes on as it is
JsonThen(w, i, data) ==
  IF Truthy(w.this.transformResponse)
  THEN [w EXCEPT !.inflight[i].stage = "transformResponse",
                 !.inflight[i].data = data]
  ELSE TransformedThen(w, i, data)

\* a catch-handler of the hook that takes the rejection for the value
HookCatchAssigns(w, e) == Set(w, "value", e)

\* the catch-handler of the beforeValueChange promise
HookCatch(w, e) ==
  Emit(w, [e |-> "console.warn",
           value |-> Str("beforeValueChange rejected the promise with ")])

---------------------------------------------------------------------------
(* Voice search *)

\* the SpeechRecognition object number id
Ref(id) == [t |-> "SpeechRecognition", id |-> id]

\* String.prototype.trim, on the transcripts the model delivers
Trimmed == (" hello world " :> "hello world" @@ "   " :> "" @@ "hi" :> "hi")

Trim(v) == Str(Trimmed[v.s])

_setMicStatus(w, status, options) ==
  _applyOptions(Set(w, "_micStatus", status), options, "micStatus",
                w.this._micStatus, status)

_stopMic(w) ==
  IF Truthy(w.this._micInstance)
  THEN _setMicStatus(
         [w EXCEPT !.sessions[w.this._micInstance.id].stopped = TRUE,
                   !.this._micInstance = Null,
                   !.trace = Append(@, [e |-> "stop",
                                        id |-> w.this._micInstance.id])],
         MIC_INACTIVE, defaultOptions)
  ELSE w

_handleVoiceResults(w, results) ==
  IF Truthy(results) /\ Truthy(results.isFinal)
     /\ Truthy(results.transcript) /\ Truthy(Trim(results.transcript))
  THEN setValue(w, Trim(results.transcript), defaultOptions)
  ELSE w

\* new SpeechRecognition() and start(): the session is the instance's
NewSession(w, micOptions, options) ==
  [w EXCEPT
     !.sessions = Append(@, [state |-> "starting", stopped |-> FALSE,
                             micOptions |-> micOptions, options |-> options]),
     !.this._micInstance = Ref(Len(w.sessions) + 1),
     !.trace = @ \o <<[e |-> "new", id |-> Len(w.sessions) + 1],
                      [e |-> "start", id |-> Len(w.sessions) + 1]>>]

\* onMicClick without the test of _micInstance
StartAnyway(w, micOptions, options) == NewSession(w, micOptions, options)

\* onMicClick from the test of _micInstance on (src lines 552-578)
StopOrStart(w, micOptions, options) ==
  IF Truthy(w.this._micInstance)
  THEN _stopMic(w)
  ELSE NewSession(w, micOptions, options)

\* onMicClick without the test for the denied status
onMicClickWhateverStatus(w, speechRecognition, micOptions, options) ==
  IF Truthy(speechRecognition)
  THEN StopOrStart(w, micOptions, options)
  ELSE w

\* speechRecognition stands for window.SpeechRecognition
onMicClick(w, speechRecognition, micOptions, options) ==
  IF Truthy(speechRecognition) /\ w.this._micStatus # MIC_DENIED
  THEN StopOrStart(IF w.this._micStatus = MIC_ACTIVE
                   THEN _setMicStatus(w, MIC_INACTIVE, options)
                   ELSE w,
                   micOptions, options)
  ELSE w

\* the three handlers onMicClick gives to a session; options are those of
\* the click that created the session
onstart(w, options) == _setMicStatus(w, MIC_ACTIVE, options)

onresult(w, results) ==
  _handleVoiceResults(IF Truthy(results) /\ Truthy(results.isFinal)
                      THEN _stopMic(w) ELSE w,
                      results)

onerror(w, error, options) ==
  Emit(IF error = "no-speech" \/ error = "audio-capture"
       THEN _setMicStatus(w, MIC_INACTIVE, options)
       ELSE IF error = "not-allowed"
       THEN _setMicStatus(w, MIC_DENIED, options)
       ELSE w,
       [e |-> "console.error", value |-> Str(error)])

---------------------------------------------------------------------------
(* Construction *)

\* the fields of an instance before the constructor body runs; the change
\* callbacks are fields the owner assigns after construction
NoFields ==
  [constructed |-> FALSE, callbacks |-> FALSE,
   index |-> Undefined, url |-> Undefined, dataField |-> Undefined,
   credentials |-> Undefined, nestedField |-> Undefined,
   queryFormat |-> Undefined, fuzziness |-> Undefined,
   searchOperators |-> Undefined, size |-> Undefined, from |-> Undefined,
   sortBy |-> Undefined, sortByField |-> Undefined,
   includeFields |-> Undefined, excludeFields |-> Undefined,
   sortOptions |-> Undefined, transformRequest |-> Undefined,
   transformResponse |-> Undefined, beforeValueChange |-> Undefined,
   suggestions |-> Undefined, results |-> Undefined, headers |-> Undefined,
   value |-> Undefined, _query |-> Undefined, _suggestionsQuery |-> Undefined,
   error |-> Undefined, suggestionsError |-> Undefined,
   _searchId |-> Undefined, _micStatus |-> Undefined,
   _micInstance |-> Undefined]

NewWorld == [this |-> NoFields, trace |-> <<>>, inflight |-> <<>>,
             hooks |-> <<>>, sessions |-> <<>>, issued |-> 0, calls |-> 0]

\* this.headers as the constructor first sets it
BaseHeaders(credentials) ==
  With(Obj("Accept" :> Str("application/json")
           @@ "Content-Type" :> Str("application/json")),
       Truthy(credentials), "Authorization",
       Str("Basic btoa:" \o credentials.s))

\* the constructor up to the headers (the assignments of the fields)
ConstructFields(cfg) ==
  [NoFields EXCEPT
     !.index = Get(cfg, "index"),
     !.url = Get(cfg, "url"),
     !.dataField = Get(cfg, "dataField"),
     !.credentials = Or(Get(cfg, "credentials"), Str("")),
     !.nestedField = Or(Get(cfg, "nestedField"), Str("")),
     !.queryFormat = Or(Get(cfg, "queryFormat"), Str("or")),
     !.fuzziness = Or(Get(cfg, "fuzziness"), Num(0)),
     !.searchOperators = Or(Get(cfg, "searchOperators"), JFalse),
     !.size = Or(ToNumber(Get(cfg, "size")), Num(DefaultSize)),
     !.from = Or(ToNumber(Get(cfg, "from")), Num(0)),
     !.sortBy = Or(Get(cfg, "sortBy"), Str("")),
     !.includeFields = Or(Get(cfg, "includeFields"), Arr(<<Str("*")>>)),
     !.excludeFields = Or(Get(cfg, "excludeFields"), Arr(<<>>)),
     !.sortOptions = Or(Get(cfg, "sortOptions"), Null),
     !.transformRequest = Or(Get(cfg, "transformRequest"), Null),
     !.transformResponse = Or(Get(cfg, "transformResponse"), Null),
     !.beforeValueChange = Or(Get(cfg, "beforeValueChange"), Null),
     !.suggestions = NewResults(Get(cfg, "suggestions")),
     !.results = NewResults(Get(cfg, "results")),
     !.headers = BaseHeaders(Or(Get(cfg, "credentials"), Str("")))]

\* the four conditional calls that end the constructor
ConstructHeaders(w, headers) ==
  IF Truthy(headers)
  THEN setHeaders(w, headers,
                  Obj("triggerQuery" :> JFalse @@ "stateChanges" :> JFalse))
  ELSE w

ConstructValue(w, value, query) ==
  IF Truthy(value)
  THEN setValue(w, value,
                Obj("triggerQuery" :> Not(query) @@ "stateChanges" :> JTrue))
  ELSE w

ConstructQuery(w, query) ==
  IF Truthy(query)
  THEN setQuery(w, query,
                Obj("triggerQuery" :> JTrue @@ "stateChanges" :> JFalse))
  ELSE _updateQuery(w, Undefined, Undefined)

ConstructSuggestionsQuery(w, query, suggestionsQuery) ==
  IF Truthy(suggestionsQuery)
  THEN setSuggestionsQuery(w, query,
         Obj("triggerQuery" :> JTrue @@ "stateChanges" :> JFalse))
  ELSE w

\* the instance handed to its owner, who registers the change callbacks
Constructed(w) == [w EXCEPT !.this.constructed = TRUE, !.this.callbacks = TRUE]

\* new Searchbase(cfg): the world after the constructor, or the world of a
\* constructor that threw
Construct(cfg) ==
  IF ~Truthy(Get(cfg, "index"))
  THEN Emit(NewWorld, [e |-> "throw", message |-> "Please provide a valid index."])
  ELSE IF ~Truthy(Get(cfg, "url"))
  THEN Emit(NewWorld, [e |-> "throw", message |-> "Please provide a valid url."])
  ELSE IF ~Truthy(Get(cfg, "dataField"))
  THEN Emit(NewWorld, [e |-> "throw",
                       message |-> "Please provide a valid data field."])
  ELSE Constructed(
         ConstructSuggestionsQuery(
           ConstructQuery(
             ConstructValue(
               ConstructHeaders([NewWorld EXCEPT !.this = ConstructFields(cfg)],
                                Get(cfg, "headers")),
               Get(cfg, "value"), Get(cfg, "query")),
             Get(cfg, "query")),
           Get(cfg, "query"), Get(cfg, "suggestionsQuery")))

---------------------------------------------------------------------------
(* The inputs the model draws from *)

Flags == {JTrue, JFalse}

OptionSets ==
  {Obj("triggerQuery" :> a @@ "stateChanges" :> b) : a \in Flags, b \in Flags}

OptionSet == {Obj("stateChanges" :> b) : b \in Flags}

\* user queries: one with query options, one without
UserQueries ==
  {Obj("query" :> Obj("term" :> Str("x")) @@ "size" :> Num(5)),
   Obj("query" :> Obj("match_none" :> EmptyObj))}

UserSuggestionsQueries ==
  {Obj("query" :> Obj("prefix" :> Str("x")) @@ "size" :> Num(3))}

Values == {Str("a"), Str("b"), Str("")}

CustomHeaders == Obj("X-Custom" :> Str("1"))

Configs ==
  {Obj("index" :> Str("books") @@ "url" :> Str("http://es")
       @@ "dataField" :> Str("title")
       @@ "value" :> v @@ "query" :> q @@ "suggestionsQuery" :> sq) :
     v \in {Undefined, Str("a")},
     q \in {Undefined} \cup UserQueries,
     sq \in {Undefined} \cup UserSuggestionsQueries}

\* the call that starts a handler, as the first entry of its trace
Call(op, arg, options) ==
  Emit(World, [e |-> "call", op |-> op, arg |-> arg, options |-> options])

\* the world in which `new Searchbase(cfg)` has returned or thrown
New(cfg, w) ==
  /\ this = w.this
  /\ trace = <<[e |-> "call", op |-> "constructor", arg |-> cfg,
                options |-> Undefined]>> \o w.trace
  /\ inflight = w.inflight
  /\ hooks = w.hooks
  /\ sessions = w.sessions
  /\ issued = w.issued
  /\ calls = 0

---------------------------------------------------------------------------
(* The instance and its setters *)

Init == \E cfg \in Configs : New(cfg, Construct(cfg))

\* one call of a method by the owner of the instance
CalledWithin(max, w) ==
  /\ this.constructed
  /\ calls < max
  /\ calls' = calls + 1
  /\ Commit(w)

Called(w) == CalledWithin(MaxCalls, w)

\* one event delivered to the instance: a promise settles, a session reports
Delivered(w) ==
  /\ this.constructed
  /\ calls' = calls
  /\ Commit(w)

\* the event that starts a handler, as the first entry of its trace
Event(name, seq, arg) ==
  Emit(World, [e |-> "event", name |-> name, seq |-> seq, arg |-> arg])

SetHeaders ==
  \E o \in OptionSets :
    Called(setHeaders(Call("setHeaders", CustomHeaders, o), CustomHeaders, o))

SetQuery ==
  \E q \in UserQueries, o \in OptionSets :
    Called(setQuery(Call("setQuery", q, o), q, o))

SetSuggestionsQuery ==
  \E q \in UserSuggestionsQueries, o \in OptionSets :
    Called(setSuggestionsQuery(Call("setSuggestionsQuery", q, o), q, o))

SetSize ==
  \E v \in {Num(5), Str("many")}, o \in OptionSets :
    Called(setSize(Call("setSize", v, o), v, o))

SetFrom ==
  \E v \in {Num(10)}, o \in OptionSets :
    Called(setFrom(Call("setFrom", v, o), v, o))

SetFuzziness ==
  \E v \in {Str("AUTO")}, o \in OptionSets :
    Called(setFuzziness(Call("setFuzziness", v, o), v, o))

SetIncludeFields ==
  \E v \in {Arr(<<Str("title")>>)}, o \in OptionSets :
    Called(setIncludeFields(Call("setIncludeFields", v, o), v, o))

SetExcludeFields ==
  \E v \in {Arr(<<Str("body")>>)}, o \in OptionSets :
    Called(setExcludeFields(Call("setExcludeFields", v, o), v, o))

SetSortBy ==
  \E v \in {Str("desc")}, o \in OptionSets :
    Called(setSortBy(Call("setSortBy", v, o), v, o))

SetSortByField ==
  \E v \in {Str("year")}, o \in OptionSets :
    Called(setSortByField(Call("setSortByField", v, o), v, o))

SetNestedField ==
  \E v \in {Str("meta")}, o \in OptionSets :
    Called(setNestedField(Call("setNestedField", v, o), v, o))

SetDataField ==
  \E v \in {Arr(<<Obj("field" :> Str("title") @@ "weight" :> Num(2)),
                  Str("body")>>)},
     o \in OptionSets :
    Called(setDataField(Call("setDataField", v, o), v, o))

SetValue ==
  \E v \in Values, o \in OptionSets :
    Called(setValue(Call("setValue", v, o), v, o))

TriggerQuery ==
  \E o \in OptionSet :
    Called(triggerQuery(Call("triggerQuery", Undefined, o), o))

TriggerSuggestionsQuery ==
  \E o \in OptionSet :
    Called(triggerSuggestionsQuery(
             Call("triggerSuggestionsQuery", Undefined, o), o))

Next ==
  \/ SetHeaders
  \/ SetQuery
  \/ SetSuggestionsQuery
  \/ SetSize
  \/ SetFrom
  \/ SetFuzziness
  \/ SetIncludeFields
  \/ SetExcludeFields
  \/ SetSortBy
  \/ SetSortByField
  \/ SetNestedField
  \/ SetDataField
  \/ SetValue
  \/ TriggerQuery
  \/ TriggerSuggestionsQuery

Spec == Init /\ [][Next]_vars

---------------------------------------------------------------------------
(* The request pipeline and the beforeValueChange gate: setValue and the   *)
(* two trigger methods, with every promise settling in its own step        *)

BaseConfig ==
  Obj("index" :> Str("books") @@ "url" :> Str("http://es")
      @@ "dataField" :> Str("title"))

PipeConfigs ==
  {Spread(BaseConfig,
          Obj("transformRequest" :> tq @@ "transformResponse" :> tr)) :
     tq \in {Undefined, Function}, tr \in {Undefined, Function}}

PipeValues == {Str("a"), Str("b")}

Statuses == {200, 500}

SearchIds == {Str("sid")}

Payloads ==
  {Obj("hits" :> Str("h1")), Obj("hits" :> Str("h2")),
   Obj("error" :> Obj("reason" :> Str("x")))}

HookError == Str("hook rejected")
NetworkError == Str("network error")
ParseError == Str("invalid json")

InitPipe == \E cfg \in PipeConfigs : New(cfg, Construct(cfg))

PipeSetValue ==
  \E v \in PipeValues :
    CalledWithin(MaxPipeCalls,
      setValue(Call("setValue", v, defaultOptions), v, defaultOptions))

PipeTriggerSuggestionsQuery ==
  CalledWithin(MaxPipeCalls,
    triggerSuggestionsQuery(
      Call("triggerSuggestionsQuery", Undefined, defaultOption), defaultOption))

\* what a transformRequest hook may resolve to: the request with an option
\* of its own, or nothing
HookResults(requestOptions) ==
  {Spread(requestOptions, Obj("cache" :> Str("no-store"))), Undefined}

TransformRequestResolved ==
  \E i \in DOMAIN inflight :
    /\ inflight[i].stage = "transformRequest"
    /\ \E final \in HookResults(inflight[i].request) :
         Delivered(FetchCalled(
           Event("transformRequest.then", inflight[i].seq, final), i, final))

TransformRequestRejected ==
  \E i \in DOMAIN inflight :
    /\ inflight[i].stage = "transformRequest"
    /\ Delivered(Reject(
         Drop(Event("transformRequest.catch", inflight[i].seq, HookError), i),
         inflight[i], HookError))

FetchResolved ==
  \E i \in DOMAIN inflight :
    /\ inflight[i].stage = "fetch"
    /\ \E status \in Statuses, id \in SearchIds :
         Delivered(FetchThen(
           Event("fetch.then", inflight[i].seq, Response(status, id)),
           i, Response(status, id)))

FetchRejected ==
  \E i \in DOMAIN inflight :
    /\ inflight[i].stage = "fetch"
    /\ Delivered(Reject(
         Drop(Event("fetch.catch", inflight[i].seq, NetworkError), i),
         inflight[i], NetworkError))

JsonResolved ==
  \E i \in DOMAIN inflight :
    /\ inflight[i].stage = "json"
    /\ \E data \in Payloads :
         Delivered(JsonThen(Event("json.then", inflight[i].seq, data), i, data))

JsonRejected ==
  \E i \in DOMAIN inflight :
    /\ inflight[i].stage = "json"
    /\ Delivered(Reject(
         Drop(Event("json.catch", inflight[i].seq, ParseError), i),
         inflight[i], ParseError))

TransformResponseResolved ==
  \E i \in DOMAIN inflight :
    /\ inflight[i].stage = "transformResponse"
    /\ \E data \in Payloads :
         Delivered(TransformedThen(
           Event("transformResponse.then", inflight[i].seq, data), i, data))

TransformResponseRejected ==
  \E i \in DOMAIN inflight :
    /\ inflight[i].stage = "transformResponse"
    /\ Delivered(Reject(
         Drop(Event("transformResponse.catch", inflight[i].seq, HookError), i),
         inflight[i], HookError))

NextPipe ==
  \/ PipeSetValue
  \/ PipeTriggerSuggestionsQuery
  \/ TransformRequestResolved
  \/ TransformRequestRejected
  \/ FetchResolved
  \/ FetchRejected
  \/ JsonResolved
  \/ JsonRejected
  \/ TransformResponseResolved
  \/ TransformResponseRejected

SpecPipe == InitPipe /\ [][NextPipe]_vars

---------------------------------------------------------------------------
(* The beforeValueChange gate: setValue with a hook configured, each       *)
(* promise of the hook settling in its own step                            *)

GateConfigs == {Spread(BaseConfig, Obj("beforeValueChange" :> Function))}

InitGate == \E cfg \in GateConfigs : New(cfg, Construct(cfg))

GateSetValue ==
  \E v \in Values, o \in OptionSets :
    CalledWithin(MaxGateCalls, setValue(Call("setValue", v, o), v, o))

BeforeValueChangeResolved ==
  \E i \in DOMAIN hooks :
    Delivered(performUpdate(
      [Event("beforeValueChange.then", hooks[i].n, hooks[i].value)
         EXCEPT !.hooks = RemoveAt(@, i)],
      hooks[i].value, hooks[i].options))

BeforeValueChangeRejected ==
  \E i \in DOMAIN hooks :
    Delivered(HookCatch(
      [Event("beforeValueChange.catch", hooks[i].n, hooks[i].value)
         EXCEPT !.hooks = RemoveAt(@, i)],
      HookError))

NextGate ==
  \/ GateSetValue
  \/ BeforeValueChangeResolved
  \/ BeforeValueChangeRejected

SpecGate == InitGate /\ [][NextGate]_vars

---------------------------------------------------------------------------
(* Voice search: the clicks on the microphone and the events of the        *)
(* recognition sessions.  A session reports its start once, results while  *)
(* it listens, and an error at most once; after stop() it may still report *)
(* what was under way, once.                                               *)

InitMic == New(BaseConfig, Construct(BaseConfig))

MicOptionSets ==
  {defaultOptions, Obj("triggerQuery" :> JFalse @@ "stateChanges" :> JFalse)}

Transcripts == {Str(" hello world "), Str("   ")}

SpeechResults ==
  [t : {"SpeechRecognitionResult"}, isFinal : Flags, transcript : Transcripts]

SpeechErrors == {"no-speech", "audio-capture", "not-allowed", "network"}

OnMicClick ==
  \E speechRecognition \in {Undefined, Function}, o \in MicOptionSets :
    CalledWithin(MaxClicks,
      onMicClick(Call("onMicClick", speechRecognition, o),
                 speechRecognition, EmptyObj, o))

SessionStarted ==
  \E id \in DOMAIN sessions :
    /\ sessions[id].state = "starting"
    /\ Delivered(onstart(
         [Event("onstart", id, Undefined)
            EXCEPT !.sessions[id].state = "listening"],
         sessions[id].options))

SessionResult ==
  \E id \in DOMAIN sessions, results \in SpeechResults :
    /\ sessions[id].state = "listening"
    /\ Delivered(onresult(
         [Event("onresult", id, results)
            EXCEPT !.sessions[id].state =
                     IF sessions[id].stopped THEN "ended" ELSE "listening"],
         results))

SessionError ==
  \E id \in DOMAIN sessions, error \in SpeechErrors :
    /\ sessions[id].state # "ended"
    /\ Delivered(onerror(
         [Event("onerror", id, Str(error))
            EXCEPT !.sessions[id].state = "ended"],
         error, sessions[id].options))

NextMic ==
  \/ OnMicClick
  \/ SessionStarted
  \/ SessionResult
  \/ SessionError

SpecMic == InitMic /\ [][NextMic]_vars

---------------------------------------------------------------------------
(* What the properties below read from a step: trace holds the effects of  *)
(* the last handler, its call or event first                               *)

EventsOf(tr, name) == SelectSeq(tr, LAMBDA x : x.e = name)

CallbacksOf(tr, name) ==
  SelectSeq(tr, LAMBDA x : x.e = "callback" /\ x.name = name)

IsCall(tr) == tr[1].e = "call"

IsEvent(tr, names) == tr[1].e = "event" /\ tr[1].name \in names

\* the serialized body of a request has the key `query`
HasQuery(body) == body.t = "json" /\ "query" \in DOMAIN body.f

---------------------------------------------------------------------------
(* The effective query (Spec) *)

\* C1: every request issued to the engine - by a trigger method, by a
\* setter with triggerQuery true or by the constructor - has a body of
\* the form {query: ..., ...options}: the body is never undefined and
\* never lacks the query key.
C1_EveryRequestHasQuery ==
  \A i \in DOMAIN trace :
    trace[i].e = "request" => HasQuery(trace[i].options.f["body"])

\* the properties whose setters the effective query depends on
DependentSetters ==
  {"setValue", "setSize", "setFrom", "setFuzziness", "setIncludeFields",
   "setExcludeFields", "setSortBy", "setSortByField", "setNestedField",
   "setDataField"}

\* the body _updateQuery builds from the properties of the instance t
Recomputed(t) == Stringify(_updateQuery([this |-> t], Undefined, Undefined).this._query)

\* the query of the instance is one the owner gave (constructor or setQuery)
Overridden(t) ==
  Get(t._query, "query") \in {Get(q, "query") : q \in UserQueries}

\* C2: when a property the query depends on is changed through its setter,
\* the effective query is recomputed from the current property values: the
\* request the setter triggers carries the body built from the new value.
\* (Stated for instances whose query the owner has not overridden.)
C2_SetterRequestCarriesNewValue ==
  (IsCall(trace) /\ trace[1].op \in DependentSetters /\ ~Overridden(this)) =>
    \A i \in DOMAIN trace :
      trace[i].e = "request" => trace[i].options.f["body"] = Recomputed(this)

---------------------------------------------------------------------------
(* The two flags of a setter (Spec) *)

\* the field a setter assigns and the key it publishes the change under
SetterField ==
  [setHeaders |-> "headers", setQuery |-> "_query",
   setSuggestionsQuery |-> "_suggestionsQuery", setSize |-> "size",
   setFrom |-> "from", setFuzziness |-> "fuzziness",
   setIncludeFields |-> "includeFields", setExcludeFields |-> "excludeFields",
   setSortBy |-> "sortBy", setSortByField |-> "sortByField",
   setNestedField |-> "nestedField", setDataField |-> "dataField",
   setValue |-> "value"]

SetterKey ==
  [SetterField EXCEPT !.setQuery = "query",
                      !.setSuggestionsQuery = "suggestionsQuery"]

\* the instance t holds what the call op(arg) was to assign
Assigned(op, arg, t) ==
  CASE op = "setHeaders" -> \A k \in DOMAIN arg.f : Get(t.headers, k) = arg.f[k]
    [] op = "setQuery" -> Get(t._query, "query") = Get(arg, "query")
    [] op = "setSuggestionsQuery" ->
         Get(t._suggestionsQuery, "query") = Get(arg, "query")
    [] OTHER -> t[SetterField[op]] = arg

\* the effects of one setter call: call is the entry of the call, tr the
\* trace it left, t and u the instance before and after
SetterEffects(call, tr, t, u, before, after) ==
  /\ Assigned(call.op, call.arg, u)
  /\ Len(EventsOf(tr, "request")) =
       IF Truthy(Get(call.options, "triggerQuery")) THEN 1 ELSE 0
  /\ EventsOf(tr, "fetch") =
       [i \in DOMAIN EventsOf(tr, "request") |->
          [e |-> "fetch", seq |-> before + 1,
           options |-> EventsOf(tr, "request")[i].options]]
  /\ after = before + Len(EventsOf(tr, "request"))
  /\ EventsOf(tr, "publish") =
       IF Truthy(Get(call.options, "stateChanges"))
       THEN <<[e |-> "publish", key |-> SetterKey[call.op],
               prev |-> t[SetterField[call.op]],
               next |-> u[SetterField[call.op]]]>>
       ELSE <<>>

\* C3: for every setter that takes {triggerQuery, stateChanges} and each of
\* the four combinations of the flags, one call assigns the property,
\* issues exactly one network request if triggerQuery is true and none
\* otherwise, and publishes exactly one change {key: {prev, next}} under
\* the property's key if stateChanges is true and none otherwise.
C3_FlagsAreIndependent ==
  [][(IsCall(trace') /\ trace'[1].op \in DOMAIN SetterField) =>
       SetterEffects(trace'[1], trace', this, this', issued, issued')]_vars

\* setSize(5, {triggerQuery: false, stateChanges: true}) on size 10 has
\* assigned, has published under "size" and has sent nothing
C3_SizePublishedNotRequested ==
  /\ IsCall(trace)
  /\ trace[1].op = "setSize"
  /\ trace[1].arg = Num(5)
  /\ trace[1].options = Obj("triggerQuery" :> JFalse @@ "stateChanges" :> JTrue)
  /\ this.size = Num(5)
  /\ EventsOf(trace, "publish") =
       <<[e |-> "publish", key |-> "size", prev |-> Num(DefaultSize),
          next |-> Num(5)]>>
  /\ EventsOf(trace, "request") = <<>>
  /\ EventsOf(trace, "fetch") = <<>>

---------------------------------------------------------------------------
(* The beforeValueChange gate (SpecGate) *)

\* the entries of q other than the one numbered n
Others(q, n) == SelectSeq(q, LAMBDA h : h.n # n)

\* no callback, no request, no publication and no throw among the effects
Quiet(tr) ==
  \A i \in DOMAIN tr : tr[i].e \notin {"callback", "request", "fetch",
                                       "publish", "throw"}

\* C4: when the beforeValueChange hook rejects for a setValue(v) call,
\* value keeps the value it had, onValueChange is not invoked, no request
\* is triggered, no state change is published and nothing is thrown to
\* the caller (the call returned when it handed v to the hook).
C4_RejectionChangesNothing ==
  [][/\ IsEvent(trace', {"beforeValueChange.catch"}) =>
          /\ this' = this
          /\ inflight' = inflight
          /\ issued' = issued
          /\ Quiet(trace')
          /\ EventsOf(trace', "console.warn") # <<>>
     /\ (IsCall(trace') /\ trace'[1].op = "setValue") =>
          \A i \in DOMAIN trace' : trace'[i].e # "throw"]_vars

\* setValue("a") was applied, the hook rejected setValue("b"): value is "a"
C4_RejectedAfterApplied ==
  /\ IsEvent(trace, {"beforeValueChange.catch"})
  /\ trace[1].arg = Str("b")
  /\ this.value = Str("a")
  /\ Quiet(trace)
  /\ hooks = <<>>

\* C5: with a beforeValueChange hook, setValue(v) does not change value
\* until the hook promise of that call resolves; each pending call is
\* applied when its own promise resolves and no other pending call is
\* cancelled by a call or by a settled promise, so the value is that of
\* the call whose promise resolved last, whatever the order of the calls.
C5_AppliedWhenOwnHookResolves ==
  [][/\ (IsCall(trace') /\ trace'[1].op = "setValue") =>
          /\ this' = this
          /\ Quiet(trace')
          /\ hooks' = Append(hooks, [n |-> calls', value |-> trace'[1].arg,
                                     options |-> trace'[1].options])
     /\ IsEvent(trace', {"beforeValueChange.then"}) =>
          /\ \E i \in DOMAIN hooks :
               hooks[i].n = trace'[1].seq /\ hooks[i].value = trace'[1].arg
          /\ this'.value = trace'[1].arg
          /\ CallbacksOf(trace', "onValueChange") =
               <<[e |-> "callback", name |-> "onValueChange",
                  args |-> <<this.value, trace'[1].arg>>]>>
     /\ IsEvent(trace', {"beforeValueChange.then", "beforeValueChange.catch"}) =>
          hooks' = Others(hooks, trace'[1].seq)]_vars

\* setValue("a") then setValue("b"); the promise of the second resolved
\* first, the promise of the first last: value is "a"
C5_FirstCallResolvedLast ==
  /\ IsEvent(trace, {"beforeValueChange.then"})
  /\ trace[1].seq = 1
  /\ calls = 2
  /\ hooks = <<>>
  /\ this.value = Str("a")
  /\ CallbacksOf(trace, "onValueChange") =
       <<[e |-> "callback", name |-> "onValueChange",
          args |-> <<Str("b"), Str("a")>>]>>

---------------------------------------------------------------------------
(* The request pipeline (SpecPipe) *)

\* the request numbered seq among those in flight
RequestOf(q, seq) == CHOOSE r \in {q[i] : i \in DOMAIN q} : r.seq = seq

\* the requests in flight other than the one numbered seq
OtherRequests(q, seq) == SelectSeq(q, LAMBDA r : r.seq # seq)

\* the step delivers the last data of a response: the parsed body without a
\* transformResponse hook, the hook's result with one
DeliversData(tr, t) ==
  \/ IsEvent(tr, {"json.then"}) /\ ~Truthy(t.transformResponse)
  \/ IsEvent(tr, {"transformResponse.then"})

\* C6: a response whose status is below 400 but whose (transformed) body
\* has an `error` property is a failure: error is set to that body and
\* onError is invoked, results is left as it was, and neither
\* onResults nor a `results` state change is produced for that response.
C6_ErrorBodyIsFailure ==
  [][(/\ DeliversData(trace', this)
      /\ "error" \in DOMAIN trace'[1].arg.f
      /\ RequestOf(inflight, trace'[1].seq).kind = "results"
      /\ RequestOf(inflight, trace'[1].seq).res.status < 400) =>
       /\ this'.error = trace'[1].arg
       /\ Len(CallbacksOf(trace', "onError")) = 1
       /\ this'.results = this.results
       /\ CallbacksOf(trace', "onResults") = <<>>
       /\ \A i \in DOMAIN trace' :
            trace'[i].e = "publish" => trace'[i].key # "results"]_vars

\* results hold the hits of an earlier response when a 200 response with
\* {error: {reason: "x"}} arrives: error has the body, results the hits
C6_ErrorBodyAfterHits ==
  /\ IsEvent(trace, {"json.then"})
  /\ trace[1].arg = Obj("error" :> Obj("reason" :> Str("x")))
  /\ this.error = trace[1].arg
  /\ Get(this.results.raw, "hits") = Str("h1")
  /\ CallbacksOf(trace, "onError") # <<>>

\* the step is the failure of a request for the reason trace[1].arg
Fails(tr) ==
  \/ IsEvent(tr, {"transformRequest.catch", "fetch.catch", "json.catch",
                  "transformResponse.catch"})
  \/ IsEvent(tr, {"fetch.then"}) /\ tr[1].arg.status >= 400

\* the failure is recorded in the field of the pipeline and the callback
\* of the pipeline was invoked, once
Surfaced(kind, reason, u, tr) ==
  IF kind = "results"
  THEN /\ u.error = reason
       /\ Len(CallbacksOf(tr, "onError")) = 1
       /\ CallbacksOf(tr, "onSuggestionsError") = <<>>
  ELSE /\ u.suggestionsError = reason
       /\ Len(CallbacksOf(tr, "onSuggestionsError")) = 1
       /\ CallbacksOf(tr, "onError") = <<>>

\* C7: every request failure, whatever its cause (status >= 400, the
\* transformRequest hook, the transformResponse hook, the network call or
\* the parsing of the body rejecting), ends with the error recorded in
\* error (triggerQuery) or suggestionsError (triggerSuggestionsQuery) and
\* the matching callback invoked; nothing is thrown to the caller of the
\* setter or trigger method.
C7_EveryFailureSurfaces ==
  [][/\ Fails(trace') =>
          /\ Surfaced(RequestOf(inflight, trace'[1].seq).kind, trace'[1].arg,
                      this', trace')
          /\ inflight' = OtherRequests(inflight, trace'[1].seq)
     /\ \A i \in DOMAIN trace' : trace'[i].e # "throw"]_vars

\* the transformRequest hook rejected for a suggestions request
C7_HookRejectionSurfaced ==
  /\ IsEvent(trace, {"transformRequest.catch"})
  /\ this.suggestionsError = HookError
  /\ this.error = Undefined
  /\ CallbacksOf(trace, "onSuggestionsError") # <<>>

\* C8: two setValue calls made while no response has arrived each issue
\* their own request, neither request is cancelled (a request leaves the
\* pipeline only when it settles itself), and each response applies its
\* own results update when it arrives: results are those of the response
\* that resolved last, whatever the order of the requests.
C8_EachResponseApplies ==
  [][/\ (IsCall(trace') /\ trace'[1].op = "setValue") =>
          /\ issued' = issued + 1
          /\ Len(inflight') = Len(inflight) + 1
          /\ SubSeq(inflight', 1, Len(inflight)) = inflight
          /\ inflight'[Len(inflight')].seq = issued'
          /\ inflight'[Len(inflight')].kind = "results"
          /\ Len(EventsOf(trace', "request")) = 1
     /\ trace'[1].e = "event" =>
          OtherRequests(inflight', trace'[1].seq)
            = OtherRequests(inflight, trace'[1].seq)
     /\ \A i \in DOMAIN trace' :
          (trace'[i].e = "resolve" /\ trace'[i].kind = "results") =>
            /\ this'.results.raw = trace'[i].value
            /\ inflight' = OtherRequests(inflight, trace'[i].seq)]_vars

\* setValue("a") then setValue("b"): the response of the second request
\* arrived first with h2, the response of the first last with h1
C8_FirstRequestResolvedLast ==
  /\ \E i \in DOMAIN trace :
       /\ trace[i].e = "resolve"
       /\ trace[i].seq = 1
       /\ trace[i].kind = "results"
  /\ issued = 2
  /\ calls = 2
  /\ inflight = <<>>
  /\ this.value = Str("b")
  /\ this.error = Undefined
  /\ this.suggestions.raw = Undefined
  /\ this.suggestionsError = Undefined
  /\ Get(this.results.raw, "hits") = Str("h1")
  /\ CallbacksOf(trace, "onResults") # <<>>

---------------------------------------------------------------------------
(* Voice search (SpecMic) *)

\* the step delivers a final result with a transcript that is not blank
FinalTranscript(tr) ==
  /\ IsEvent(tr, {"onresult"})
  /\ Truthy(tr[1].arg.isFinal)
  /\ Truthy(Trim(tr[1].arg.transcript))

\* C9: when a session delivers, while the mic status is ACTIVE, a final
\* result whose trimmed transcript t is not empty (no beforeValueChange
\* hook), then value is t, the mic status has gone ACTIVE -> INACTIVE, and
\* onMicStatusChange and onValueChange have each been invoked exactly once
\* for that event.
C9_FinalResultEndsActive ==
  [][(FinalTranscript(trace') /\ this._micStatus = MIC_ACTIVE) =>
       /\ this'.value = Trim(trace'[1].arg.transcript)
       /\ this'._micStatus = MIC_INACTIVE
       /\ CallbacksOf(trace', "onMicStatusChange") =
            <<[e |-> "callback", name |-> "onMicStatusChange",
               args |-> <<MIC_ACTIVE, MIC_INACTIVE>>]>>
       /\ Len(CallbacksOf(trace', "onValueChange")) = 1]_vars

\* the sessions that were started and not stopped
Unstopped(q) == {id \in DOMAIN q : ~q[id].stopped}

\* C10: at most one recognition session that was started and not stopped
\* is held by the instance - it is the one the handle refers to; onMicClick
\* creates and starts a session only while the instance holds no handle.
C10_OneSessionHeld ==
  [][/\ Unstopped(sessions') \subseteq
          {id \in DOMAIN sessions' : this'._micInstance = Ref(id)}
     /\ Cardinality(Unstopped(sessions')) <= 1
     /\ sessions' # sessions =>
          \/ /\ ~Truthy(this._micInstance)
             /\ IsCall(trace')
             /\ Len(sessions') = Len(sessions) + 1
             /\ SubSeq(sessions', 1, Len(sessions)) = sessions
          \/ Len(sessions') = Len(sessions)]_vars

\* the first session was stopped and still listens, the second was created
\* after the handle was released and is the one the instance holds
C10_SecondSessionAfterRelease ==
  /\ Len(sessions) = 2
  /\ sessions[1].stopped
  /\ sessions[1].state = "listening"
  /\ ~sessions[2].stopped
  /\ this._micInstance = Ref(2)
  /\ IsCall(trace)
  /\ EventsOf(trace, "start") = <<[e |-> "start", id |-> 2]>>

---------------------------------------------------------------------------
(* The microphone status (SpecMic) *)

\* get micStatus()
micStatus(t) == t._micStatus

\* the values of MIC_STATUS
MicStatuses == {MIC_INACTIVE, MIC_STOPPED, MIC_ACTIVE, MIC_DENIED}

\* C11: in every state of an instance, from the end of construction on,
\* the microphone status is one of inactive, stopped, active, denied.
C11_MicStatusInDomain ==
  this.constructed => micStatus(this) \in MicStatuses

\* the step is an onMicClick with window.SpeechRecognition available
IsMicClick(tr) == IsCall(tr) /\ tr[1].op = "onMicClick" /\ Truthy(tr[1].arg)

\* C12: an onMicClick made while the mic status is ACTIVE stops the current
\* session instead of starting one: afterwards the status is INACTIVE, the
\* handle is released (stop was called on the session it referred to) and
\* the call has created no recognition session.
C12_ClickWhileActiveStops ==
  [][(IsMicClick(trace') /\ micStatus(this) = MIC_ACTIVE) =>
       /\ micStatus(this') = MIC_INACTIVE
       /\ ~Truthy(this'._micInstance)
       /\ Truthy(this._micInstance) => sessions'[this._micInstance.id].stopped
       /\ Len(sessions') = Len(sessions)
       /\ EventsOf(trace', "new") = <<>>]_vars

\* C13: while the mic status is DENIED every onMicClick is a no-op: it
\* changes neither the status nor the handle (nor any other field), creates
\* no session, invokes no callback, triggers no request and publishes no
\* state change.
C13_ClickWhileDeniedIsNoOp ==
  [][(IsCall(trace') /\ trace'[1].op = "onMicClick"
      /\ micStatus(this) = MIC_DENIED) =>
       /\ this' = this
       /\ sessions' = sessions
       /\ inflight' = inflight
       /\ issued' = issued
       /\ Len(trace') = 1]_vars

\* a click with the speech API available, made while the status is DENIED
\* and the handle of the denied session is still held
C13_ClickedWhileDenied ==
  /\ IsMicClick(trace)
  /\ micStatus(this) = MIC_DENIED
  /\ this._micInstance = Ref(1)
  /\ sessions[1].state = "ended"
  /\ ~sessions[1].stopped
  /\ Len(trace) = 1

---------------------------------------------------------------------------
(* Construction with any configuration, and size and from (SpecNew) *)

Indexes == {Undefined, Str(""), Str("books")}

Urls == {Undefined, Str(""), Str("http://es")}

\* a field specification is a string or an array of fields
DataFields == {Undefined, Str(""), Str("title"), Arr(<<>>)}

\* what the owner may pass for size and from
Sizes == {Undefined, Str("20"), Str("many")}

Froms == {Undefined, Str("many")}

NewConfigs ==
  {Obj("index" :> i @@ "url" :> u @@ "dataField" :> d @@ "value" :> v
       @@ "size" :> s @@ "from" :> f) :
     i \in Indexes, u \in Urls, d \in DataFields, v \in {Undefined, Str("a")},
     s \in Sizes, f \in Froms}

InitNew == \E cfg \in NewConfigs : New(cfg, Construct(cfg))

\* what the owner may pass to setSize and setFrom
Arguments == {Num(5), Num(0), Str("20"), Str("many"), Undefined}

NewOptionSets ==
  {defaultOptions, Obj("triggerQuery" :> JFalse @@ "stateChanges" :> JTrue)}

NewSetSize ==
  \E v \in Arguments, o \in NewOptionSets :
    Called(setSize(Call("setSize", v, o), v, o))

NewSetFrom ==
  \E v \in Arguments, o \in NewOptionSets :
    Called(setFrom(Call("setFrom", v, o), v, o))

NextNew ==
  \/ NewSetSize
  \/ NewSetFrom

SpecNew == InitNew /\ [][NextNew]_vars

\* the constructor threw
Thrown(tr) == EventsOf(tr, "throw") # <<>>

\* a configuration value that is missing or empty
Empty(v) == v \in {Undefined, Null, Str(""), Arr(<<>>)}

\* the state is the one `new Searchbase(cfg)` has left
IsNew(tr) == IsCall(tr) /\ tr[1].op = "constructor"

\* C14: construction fails with a synchronously thrown error, before any
\* request is issued or any listener is notified, whenever index, url or
\* dataField is missing or empty; it succeeds only when all three are
\* non-empty.
C14_ConstructionValidates ==
  IsNew(trace) =>
    /\ Thrown(trace) <=>
         \/ Empty(Get(trace[1].arg, "index"))
         \/ Empty(Get(trace[1].arg, "url"))
         \/ Empty(Get(trace[1].arg, "dataField"))
    /\ Thrown(trace) =>
         /\ Len(trace) = 2
         /\ issued = 0
         /\ inflight = <<>>
         /\ ~this.constructed

\* C15: in every state size and from are numbers: a non-numeric or unset
\* size yields 10 and a non-numeric or unset from yields 0, at construction
\* and after any call of setSize or setFrom with an arbitrary argument.
C15_SizeAndFromAreNumbers ==
  /\ this.constructed => this.size.t = "number" /\ this.from.t = "number"
  /\ IsNew(trace) /\ this.constructed =>
       /\ this.size = Or(ToNumber(Get(trace[1].arg, "size")), Num(DefaultSize))
       /\ this.from = Or(ToNumber(Get(trace[1].arg, "from")), Num(0))
  /\ IsCall(trace) /\ trace[1].op = "setSize" =>
       this.size = Or(ToNumber(trace[1].arg), Num(DefaultSize))
  /\ IsCall(trace) /\ trace[1].op = "setFrom" =>
       this.from = Or(ToNumber(trace[1].arg), Num(0))

---------------------------------------------------------------------------
(* The effective query and the query of the owner (SpecQuery) *)

MaxQueryCalls == 3

QueryConfigs ==
  {Spread(BaseConfig, Obj("value" :> v @@ "sortBy" :> s)) :
     v \in {Undefined, Str("a")}, s \in {Undefined, Str("desc")}}

\* what the owner may pass to setQuery and setSuggestionsQuery: a query
\* with and without options, options alone, nothing
QueriesTobeSet ==
  UserQueries \cup {Obj("size" :> Num(5) @@ "from" :> Num(20)), Undefined}

\* the setters are called for their assignment alone
Silent == Obj("triggerQuery" :> JFalse @@ "stateChanges" :> JFalse)

InitQuery == \E cfg \in QueryConfigs : New(cfg, Construct(cfg))

QuerySetValue ==
  \E v \in Values :
    CalledWithin(MaxQueryCalls, setValue(Call("setValue", v, Silent), v, Silent))

QuerySetFrom ==
  \E v \in {Num(10)} :
    CalledWithin(MaxQueryCalls, setFrom(Call("setFrom", v, Silent), v, Silent))

QuerySetSortByField ==
  \E v \in {Str("year")} :
    CalledWithin(MaxQueryCalls,
      setSortByField(Call("setSortByField", v, Silent), v, Silent))

QuerySetQuery ==
  \E q \in QueriesTobeSet :
    CalledWithin(MaxQueryCalls, setQuery(Call("setQuery", q, Silent), q, Silent))

QuerySetSuggestionsQuery ==
  \E q \in QueriesTobeSet :
    CalledWithin(MaxQueryCalls,
      setSuggestionsQuery(Call("setSuggestionsQuery", q, Silent), q, Silent))

NextQuery ==
  \/ QuerySetValue
  \/ QuerySetFrom
  \/ QuerySetSortByField
  \/ QuerySetQuery
  \/ QuerySetSuggestionsQuery

SpecQuery == InitQuery /\ [][NextQuery]_vars

\* the default query of the instance t: built from its value and fields
DefaultQueryOf(t) ==
  defaultQuery(t.value, Obj("dataField" :> t.dataField
                            @@ "searchOperators" :> t.searchOperators
                            @@ "queryFormat" :> t.queryFormat
                            @@ "fuzziness" :> t.fuzziness
                            @@ "nestedField" :> t.nestedField))

\* the query chosen by priority: the override, the default query of a value
\* that is not empty, match_all
ByPriority(override, t) ==
  IF override # Undefined THEN override
  ELSE IF t.value.t = "string" /\ t.value.s # "" THEN DefaultQueryOf(t)
  ELSE Obj("match_all" :> EmptyObj)

\* C16: the `query` part of the effective query computed by _updateQuery
\* (and of the suggestions query computed by _updateSuggestionsQuery) is
\* chosen by strict priority: the override of the owner if one is given;
\* otherwise the default query built from the current value when the value
\* is a string that is not empty; otherwise {match_all: {}}, the default
\* query being null for an empty or undefined value.
C16_QueryByPriority ==
  /\ (IsCall(trace) /\ trace[1].op = "setQuery") =>
       Get(this._query, "query") = ByPriority(Get(trace[1].arg, "query"), this)
  /\ (IsCall(trace) /\ trace[1].op = "setSuggestionsQuery") =>
       Get(this._suggestionsQuery, "query")
         = ByPriority(Get(trace[1].arg, "query"), this)
  /\ IsNew(trace) =>
       Get(this._query, "query") = ByPriority(Undefined, this)
  /\ this.value \in {Undefined, Str("")} => DefaultQueryOf(this) = Null
  /\ this.value \in {Str("a"), Str("b")} =>
       Get(Get(DefaultQueryOf(this), "bool"), "minimum_should_match") = Str("1")

\* setQuery with a query of the owner while the value is "a": the override
C16_OverrideBeforeDefault ==
  /\ IsCall(trace)
  /\ trace[1].op = "setQuery"
  /\ this.value = Str("a")
  /\ Get(trace[1].arg, "query") = Obj("term" :> Str("x"))
  /\ Get(this._query, "query") = Obj("term" :> Str("x"))
  /\ Get(this._suggestionsQuery, "query") = Obj("match_all" :> EmptyObj)

\* the query options generated from the properties of the instance t
GeneratedOf(t) ==
  generateQueryOptions(Obj("excludeFields" :> t.excludeFields
                           @@ "includeFields" :> t.includeFields
                           @@ "size" :> t.size
                           @@ "from" :> t.from
                           @@ "sortBy" :> t.sortBy
                           @@ "sortByField" :> t.sortByField
                           @@ "sortOptions" :> t.sortOptions))

GeneratedKeys == {"size", "from", "_source", "sort"}

\* the keys of what the owner passed to setQuery
KeysOf(q) == IF q.t = "object" THEN DOMAIN q.f ELSE {}

\* C17: in the effective query produced by setQuery(q), every option key k
\* of q other than `query` has q's value, and every generated option key
\* (size, from, _source, sort) absent from q has the value generated from
\* the current state: the options of the owner override key by key and
\* never replace the generated options as a whole.
C17_OptionsMergedKeyByKey ==
  (IsCall(trace) /\ trace[1].op = "setQuery") =>
    /\ \A k \in KeysOf(trace[1].arg) \ {"query"} :
         Get(this._query, k) = trace[1].arg.f[k]
    /\ \A k \in GeneratedKeys \ KeysOf(trace[1].arg) :
         Get(this._query, k) = Get(GeneratedOf(this), k)
    /\ DOMAIN this._query.f =
         {"query"} \cup KeysOf(trace[1].arg) \cup DOMAIN GeneratedOf(this).f

\* setQuery({query, size: 5}) after setFrom(10) and setSortByField("year")
\* on an instance sorted "desc": size is the owner's, from, _source and
\* sort are the generated ones
C17_SizeOverriddenRestGenerated ==
  /\ IsCall(trace)
  /\ trace[1].op = "setQuery"
  /\ KeysOf(trace[1].arg) = {"query", "size"}
  /\ Get(this._query, "size") = Num(5)
  /\ this.size = Num(DefaultSize)
  /\ Get(this._query, "from") = Num(10)
  /\ Get(this._query, "sort") =
       Arr(<<Obj("year" :> Obj("order" :> Str("desc")))>>)
  /\ Get(this._query, "_source") # Undefined

---------------------------------------------------------------------------
(* The headers of a request (SpecPipe) *)

\* the headers of the requests the last handler issued
RequestHeaders(tr) ==
  {tr[i].options.f["headers"] : i \in {j \in DOMAIN tr : tr[j].e = "request"}}

\* C18 as stated: the analytics headers of every request are determined by
\* the stored session id: with a session id of an earlier response the
\* request carries X-Search-Id with that id, otherwise it carries
\* X-Search-Query with the current value.
C18_HeadersBySessionId ==
  \A h \in RequestHeaders(trace) :
    IF Truthy(this._searchId)
    THEN Get(h, "X-Search-Id") = this._searchId
    ELSE "X-Search-Query" \in DOMAIN h.f /\ h.f["X-Search-Query"] = this.value

\* C18, amended: with a session id the request carries X-Search-Id with
\* that id and X-Search-Query with the current value; without a session id
\* it carries X-Search-Query with the current value when the value is not
\* empty and no analytics header at all when it is; the other headers are
\* the standing headers of the instance.
C18_HeadersBySessionIdAndValue ==
  \A h \in RequestHeaders(trace) :
    /\ IF Truthy(this._searchId)
       THEN /\ Get(h, "X-Search-Id") = this._searchId
            /\ "X-Search-Query" \in DOMAIN h.f
            /\ h.f["X-Search-Query"] = this.value
       ELSE IF Truthy(this.value)
       THEN /\ Get(h, "X-Search-Query") = this.value
            /\ "X-Search-Id" \notin DOMAIN h.f
       ELSE DOMAIN h.f \cap {"X-Search-Id", "X-Search-Query"} = {}
    /\ \A k \in DOMAIN h.f \ {"X-Search-Id", "X-Search-Query"} :
         Get(this.headers, k) = h.f[k]
    /\ DOMAIN this.headers.f \subseteq DOMAIN h.f

\* setValue("b") after a response that carried the session id "sid"
C18_RequestWithSessionId ==
  /\ IsCall(trace)
  /\ trace[1].op = "setValue"
  /\ this._searchId = Str("sid")
  /\ \E h \in RequestHeaders(trace) :
       /\ Get(h, "X-Search-Id") = Str("sid")
       /\ Get(h, "X-Search-Query") = Str("b")

---------------------------------------------------------------------------
(* The transformRequest hook and the outcome of a request (SpecPipe) *)

\* a value a network call can be made with
RequestShaped(v) == v.t = "object"

\* C19: when a transformRequest hook is configured and resolves to a value
\* that is not request-shaped (e.g. undefined), the network call is issued
\* with the original, untransformed request options; when it resolves to a
\* request-shaped value the call is issued with that value.
C19_HookResultOrOriginal ==
  [][IsEvent(trace', {"transformRequest.then"}) =>
       EventsOf(trace', "fetch") =
         <<[e |-> "fetch", seq |-> trace'[1].seq,
            options |-> IF RequestShaped(trace'[1].arg) THEN trace'[1].arg
                        ELSE RequestOf(inflight, trace'[1].seq).request]>>]_vars


---------------------------------------------------------------------------
(* Calls of triggerQuery and triggerSuggestionsQuery whose hooks and       *)
(* network calls all settle: every promise a request waits for is          *)
(* eventually resolved or rejected                                         *)

MaxTriggerCalls == 2

InitTrigger == \E cfg \in PipeConfigs : New(cfg, Construct(cfg))

CallTriggerQuery ==
  CalledWithin(MaxTriggerCalls,
    triggerQuery(Call("triggerQuery", Undefined, defaultOption), defaultOption))

CallTriggerSuggestionsQuery ==
  CalledWithin(MaxTriggerCalls,
    triggerSuggestionsQuery(
      Call("triggerSuggestionsQuery", Undefined, defaultOption), defaultOption))

NextTrigger ==
  \/ CallTriggerQuery
  \/ CallTriggerSuggestionsQuery
  \/ TransformRequestResolved
  \/ TransformRequestRejected
  \/ FetchResolved
  \/ FetchRejected
  \/ JsonResolved
  \/ JsonRejected
  \/ TransformResponseResolved
  \/ TransformResponseRejected

\* the promise that request n waits for settles
Settles(n) ==
  /\ \/ TransformRequestResolved
     \/ TransformRequestRejected
     \/ FetchResolved
     \/ FetchRejected
     \/ JsonResolved
     \/ JsonRejected
     \/ TransformResponseResolved
     \/ TransformResponseRejected
  /\ trace'[1].seq = n

SpecTrigger ==
  /\ InitTrigger
  /\ [][NextTrigger]_vars
  /\ \A n \in 1..MaxTriggerCalls : WF_vars(Settles(n))

\* request n is among the requests q
InFlight(q, n) == \E i \in DOMAIN q : q[i].seq = n

\* request n was made by triggerQuery and has not settled
ResultsInFlight(q, n) == InFlight(q, n) /\ RequestOf(q, n).kind = "results"

\* request n was made and is no longer in flight
Settled(n) == n <= issued /\ ~InFlight(inflight, n)

\* the entries named e of the effects tr that belong to request n
EntriesOf(tr, e, n) == SelectSeq(tr, LAMBDA x : x.e = e /\ x.seq = n)

\* the step is one results update for request n and no error update
ResultsUpdate(n, t, t2, tr) ==
  /\ Len(EntriesOf(tr, "resolve", n)) = 1
  /\ EntriesOf(tr, "reject", n) = <<>>
  /\ t2.results.raw = EntriesOf(tr, "resolve", n)[1].value
  /\ t2.error = t.error
  /\ Len(CallbacksOf(tr, "onResults")) = 1
  /\ CallbacksOf(tr, "onError") = <<>>

\* the step is one error update for request n and no results update
ErrorUpdate(n, t, t2, tr) ==
  /\ Len(EntriesOf(tr, "reject", n)) = 1
  /\ EntriesOf(tr, "resolve", n) = <<>>
  /\ t2.error = EntriesOf(tr, "reject", n)[1].value
  /\ t2.results = t.results
  /\ Len(CallbacksOf(tr, "onError")) = 1
  /\ CallbacksOf(tr, "onResults") = <<>>

\* what one step does to the request n of a triggerQuery call
OneCallOneOutcome(n) ==
  \* the call makes one request, and the network call of a request is made
  \* once: at the call without a transformRequest hook, else when the hook
  \* resolves, and never again
  /\ (IsCall(trace') /\ trace'[1].op = "triggerQuery" /\ n = issued') =>
       /\ issued' = issued + 1
       /\ inflight'[Len(inflight')].seq = n
       /\ SubSeq(inflight', 1, Len(inflight)) = inflight
       /\ ResultsInFlight(inflight', n)
       /\ Len(EventsOf(trace', "request")) = 1
  /\ Len(EntriesOf(trace', "fetch", n)) <= 1
  /\ EntriesOf(trace', "fetch", n) # <<>> =>
       /\ InFlight(inflight, n) => RequestOf(inflight, n).stage = "transformRequest"
       /\ InFlight(inflight', n) /\ RequestOf(inflight', n).stage = "fetch"
  /\ (InFlight(inflight, n) /\ InFlight(inflight', n)
        /\ RequestOf(inflight, n).stage # "transformRequest") =>
       RequestOf(inflight', n).stage # "transformRequest"
  \* the request leaves the pipeline with exactly one outcome, and there is
  \* no outcome for it while it stays
  /\ (ResultsInFlight(inflight, n) /\ ~InFlight(inflight', n)) =>
       \/ ResultsUpdate(n, this, this', trace')
       \/ ErrorUpdate(n, this, this', trace')
  /\ (~InFlight(inflight, n) \/ InFlight(inflight', n)) =>
       /\ EntriesOf(trace', "resolve", n) = <<>>
       /\ EntriesOf(trace', "reject", n) = <<>>
  \* and once it has left it does not come back
  /\ Settled(n) => Settled(n)'

\* results and error change only with the outcome of a triggerQuery call
NoOutcomeNoUpdate ==
  (\A n \in 1..MaxTriggerCalls :
     ~(ResultsInFlight(inflight, n) /\ ~InFlight(inflight', n))) =>
    /\ this'.results = this.results
    /\ this'.error = this.error

\* C20: each call of triggerQuery issues at most one network call (no
\* retry on failure) and, provided the hooks and the network call
\* eventually settle, eventually produces exactly one outcome for that
\* call: either one results update or one error update, never both and
\* never neither.
C20_OneOutcomePerCall ==
  /\ [][NoOutcomeNoUpdate
        /\ \A n \in 1..MaxTriggerCalls : OneCallOneOutcome(n)]_vars
  /\ \A n \in 1..MaxTriggerCalls :
       ResultsInFlight(inflight, n) ~> Settled(n)

\* two triggerQuery calls, both settled: the first failed with status 500,
\* the second then delivered hits
C20_FailedThenDelivered ==
  /\ issued = 2
  /\ inflight = <<>>
  /\ this.error = Response(500, Str("sid"))
  /\ this.suggestionsError = Undefined
  /\ EntriesOf(trace, "resolve", 2) # <<>>
  /\ Get(this.results.raw, "hits") = Str("h1")


---------------------------------------------------------------------------
(* Searchbase.generateQueryOptions as a function of its argument: the      *)
(* call is made with one of the option objects below and returns or throws *)

SortEntries ==
  {Obj("dataField" :> Str("year") @@ "sortBy" :> Str("desc")),
   Obj("dataField" :> Str("title") @@ "sortBy" :> Str("asc"))}

SortLists ==
  {Undefined, Null, Arr(<<>>)}
    \cup {Arr(<<a>>) : a \in SortEntries}
    \cup {Arr(<<a, b>>) : a \in SortEntries, b \in SortEntries}

GeneratorOptions ==
  {Obj("sortOptions" :> l @@ "sortBy" :> by @@ "sortByField" :> field
       @@ "size" :> size @@ "includeFields" :> inc) :
     l \in SortLists,
     by \in {Undefined, Str("asc"), Str("")},
     field \in {Undefined, Str("title"), Str("")},
     size \in {Undefined, Num(5)},
     inc \in {Undefined, Arr(<<Str("title")>>)}}

\* options.sortOptions[0].dataField of a list without entries: a TypeError
ReadsMissingEntry(options) ==
  /\ Truthy(Get(options, "sortOptions"))
  /\ Get(options, "sortOptions").a = <<>>

GeneratorOutcome(options) ==
  IF ReadsMissingEntry(options)
  THEN [e |-> "throw", message |-> "TypeError"]
  ELSE [e |-> "return", value |-> generateQueryOptions(options)]

InitGenerator ==
  /\ \E options \in GeneratorOptions :
       trace = <<[e |-> "call", op |-> "generateQueryOptions",
                  arg |-> options, options |-> Undefined]>>
  /\ this = NoFields
  /\ inflight = <<>>
  /\ hooks = <<>>
  /\ sessions = <<>>
  /\ issued = 0
  /\ calls = 0

GeneratorReturns ==
  /\ Len(trace) = 1
  /\ trace' = Append(trace, GeneratorOutcome(trace[1].arg))
  /\ UNCHANGED <<this, inflight, hooks, sessions, issued, calls>>

NextGenerator == GeneratorReturns

SpecGenerator == InitGenerator /\ [][NextGenerator]_vars

\* the one sort clause { [field]: { order } }
SortClause(field, order) ==
  Arr(<<Obj(PropertyKey(field) :> Obj("order" :> order))>>)

\* a sort-option list is given
ListGiven(options) == Get(options, "sortOptions").t = "array"

\* sortBy and sortByField are both set
PairSet(options) ==
  Truthy(Get(options, "sortBy")) /\ Truthy(Get(options, "sortByField"))

\* C21: generateQueryOptions emits at most one sort clause: when a
\* sort-option list is given, the clause is built from the list's first
\* entry even if sortBy and sortByField are also given; when no list is
\* given and both sortBy and sortByField are set, the clause is built from
\* that pair; otherwise no sort key is emitted.
C21_OneSortClause ==
  Len(trace) = 2 =>
    /\ trace[2].e = "return"
    /\ ListGiven(trace[1].arg) =>
         Get(trace[2].value, "sort") =
           SortClause(Get(Get(trace[1].arg, "sortOptions").a[1], "dataField"),
                      Get(Get(trace[1].arg, "sortOptions").a[1], "sortBy"))
    /\ (~ListGiven(trace[1].arg) /\ PairSet(trace[1].arg)) =>
         Get(trace[2].value, "sort") =
           SortClause(Get(trace[1].arg, "sortByField"),
                      Get(trace[1].arg, "sortBy"))
    /\ (~ListGiven(trace[1].arg) /\ ~PairSet(trace[1].arg)) =>
         "sort" \notin DOMAIN trace[2].value.f


---------------------------------------------------------------------------
(* The session id (SpecPipe) *)

\* C22: the stored session id is taken from successful responses only: it
\* equals the X-Search-Id header of the most recent successful response, a
\* failed response (status >= 400) leaves it unchanged, and the request
\* issued after a successful response carrying header h is sent with
\* X-Search-Id equal to h.
C22_SessionIdFromSuccess ==
  [][/\ (IsEvent(trace', {"fetch.then"}) /\ trace'[1].arg.status < 400) =>
          this'._searchId = trace'[1].arg.searchId
     /\ ~(IsEvent(trace', {"fetch.then"}) /\ trace'[1].arg.status < 400) =>
          this'._searchId = this._searchId
     /\ \A h \in RequestHeaders(trace') :
          Truthy(this._searchId) => Get(h, "X-Search-Id") = this._searchId]_vars


---------------------------------------------------------------------------
(* One apply step: _applyOptions called for a key with the previous and    *)
(* the next value, on an instance whose owner has registered the callbacks *)

MaxApplyCalls == 2

ApplyKeys ==
  {"micStatus", "value", "error", "suggestionsError", "results",
   "suggestions", "size"}

ApplyValues == {Undefined, Str("old"), Str("new")}

InitApply == New(BaseConfig, Construct(BaseConfig))

ApplyOptions ==
  \E key \in ApplyKeys, prev \in ApplyValues, o \in OptionSets :
    \E next \in ApplyValues \ {prev} :
      CalledWithin(MaxApplyCalls,
        _applyOptions(
          Call("_applyOptions", [key |-> key, prev |-> prev, next |-> next], o),
          o, key, prev, next))

NextApply == ApplyOptions

SpecApply == InitApply /\ [][NextApply]_vars

\* the state is the one a call of _applyOptions has left
IsApply(tr) == IsCall(tr) /\ tr[1].op = "_applyOptions"

\* the places of the entries named e among the effects tr
PlacesOf(tr, e) == {i \in DOMAIN tr : tr[i].e = e}

\* every entry named a comes before every entry named b
Before(tr, a, b) == \A i \in PlacesOf(tr, a), j \in PlacesOf(tr, b) : i < j

\* the callbacks that receive (prev, next), and those that receive the
\* previous error alone
ChangeCallbacks ==
  [micStatus |-> "onMicStatusChange", value |-> "onValueChange",
   results |-> "onResults", suggestions |-> "onSuggestions"]

ErrorCallbacks ==
  [error |-> "onError", suggestionsError |-> "onSuggestionsError"]

---------------------------------------------------------------------------
(* The options of a click (SpecMic) *)

\* applyOptions = { triggerQuery: false, stateChanges: false }
NoEffects == Obj("triggerQuery" :> JFalse @@ "stateChanges" :> JFalse)

\* the options that govern the step: those of the click, or those of the
\* click that started the session the event belongs to
GoverningOptions(tr, q) ==
  IF IsCall(tr) THEN tr[1].options ELSE q[tr[1].seq].options

\* C24: the options passed to onMicClick(sessionOptions, applyOptions)
\* govern every mic-status change caused by that click and by the session
\* it starts: with applyOptions = {triggerQuery:false, stateChanges:false},
\* no mic-status transition (start, stop by toggle, stop after a final
\* transcript, error) issues a request or publishes a micStatus state
\* change.  (The request of the setValue that a final transcript makes is
\* not counted.)
C24_SilentClickStaysSilent ==
  [][GoverningOptions(trace', sessions') = NoEffects =>
       /\ \A i \in DOMAIN trace' :
            trace'[i].e = "publish" => trace'[i].key # "micStatus"
       /\ Len(EventsOf(trace', "request"))
            = Len(CallbacksOf(trace', "onValueChange"))]_vars


---------------------------------------------------------------------------
(* Starting a session (SpecMic) *)

\* the call has created session id, started it and holds it
StartedSession(id, t, q, tr) ==
  /\ id = Len(q)
  /\ t._micInstance = Ref(id)
  /\ q[id].state = "starting"
  /\ ~q[id].stopped
  /\ EventsOf(tr, "new") = <<[e |-> "new", id |-> id]>>
  /\ EventsOf(tr, "start") = <<[e |-> "start", id |-> id]>>

\* C25: whenever the mic status is INACTIVE and the speech API is
\* available, an onMicClick creates and starts a new recognition session,
\* and the status becomes ACTIVE when that session reports its start; this
\* holds also when INACTIVE was reached through a no-speech or
\* audio-capture session error.
C25_ClickWhileInactiveStarts ==
  [][/\ (IsMicClick(trace') /\ micStatus(this) = MIC_INACTIVE) =>
          StartedSession(Len(sessions) + 1, this', sessions', trace')
     /\ IsEvent(trace', {"onstart"}) => micStatus(this') = MIC_ACTIVE]_vars


---------------------------------------------------------------------------
(* What a successful request reports (SpecPipe) *)

\* C26: when a request completes successfully, the `prev` delivered to
\* onResults and to subscribers of `results` (respectively onSuggestions /
\* `suggestions`) is the result set as it was before the response was
\* applied, and `next` is the result set after it; the two are
\* distinguishable whenever the response changed the data.
C26_PrevIsBefore ==
  [][\A i \in DOMAIN trace' :
       trace'[i].e = "resolve" =>
         /\ CallbacksOf(trace', ChangeCallbacks[trace'[i].kind]) =
              <<[e |-> "callback", name |-> ChangeCallbacks[trace'[i].kind],
                 args |-> <<this[trace'[i].kind], this'[trace'[i].kind]>>]>>
         /\ \A j \in DOMAIN trace' :
              trace'[j].e = "publish" =>
                /\ trace'[j].key = trace'[i].kind
                /\ trace'[j].prev = this[trace'[i].kind]
                /\ trace'[j].next = this'[trace'[i].kind]]_vars


---------------------------------------------------------------------------
(* The options of a query set by the owner (Spec) *)

\* C27: after setQuery(q) where q carries a `size` option n, the
\* instance's size property equals n (the user-supplied query option is
\* synced back into the property), and this sync itself triggers no
\* request: the call makes the one request of its own triggerQuery flag,
\* or none.
C27_SizeSyncedFromQuery ==
  [][(IsCall(trace') /\ trace'[1].op = "setQuery"
      /\ Get(trace'[1].arg, "size") # Undefined) =>
       /\ this'.size = Get(trace'[1].arg, "size")
       /\ Len(EventsOf(trace', "request")) =
            (IF Truthy(Get(trace'[1].options, "triggerQuery")) THEN 1 ELSE 0)]_vars


---------------------------------------------------------------------------
(* Setters called with an options argument that leaves a flag out, or      *)
(* without one                                                             *)

MaxPartialCalls == 2

\* the options arguments of the owner: both flags, one flag, none, and no
\* argument at all
PartialOptionSets ==
  OptionSets
    \cup {Obj("triggerQuery" :> a) : a \in Flags}
    \cup {Obj("stateChanges" :> b) : b \in Flags}
    \cup {EmptyObj, Undefined}

\* a parameter `options = defaultOptions`: the default stands in for a
\* missing argument only
DefaultParameter(options) ==
  IF options = Undefined THEN defaultOptions ELSE options

InitPartial == New(BaseConfig, Construct(BaseConfig))

PartialSetSize ==
  \E o \in PartialOptionSets :
    CalledWithin(MaxPartialCalls,
      setSize(Call("setSize", Num(5), o), Num(5), DefaultParameter(o)))

PartialSetFrom ==
  \E o \in PartialOptionSets :
    CalledWithin(MaxPartialCalls,
      setFrom(Call("setFrom", Num(20), o), Num(20), DefaultParameter(o)))

PartialSetValue ==
  \E v \in PipeValues, o \in PartialOptionSets :
    CalledWithin(MaxPartialCalls,
      setValue(Call("setValue", v, o), v, DefaultParameter(o)))

PartialSetQuery ==
  \E q \in UserQueries, o \in PartialOptionSets :
    CalledWithin(MaxPartialCalls,
      setQuery(Call("setQuery", q, o), q, DefaultParameter(o)))

NextPartial ==
  \/ PartialSetSize
  \/ PartialSetFrom
  \/ PartialSetValue
  \/ PartialSetQuery

SpecPartial == InitPartial /\ [][NextPartial]_vars

\* the flag as the call gave it, true when the call left it out
FlagOrTrue(options, flag) ==
  IF options.t = "object" /\ flag \in DOMAIN options.f
  THEN Truthy(options.f[flag])
  ELSE TRUE

\* C28: for every setter other than the result/suggestion setters,
\* triggerQuery and stateChanges each default to true independently: a
\* call whose options argument omits one of the two flags (e.g.
\* setSize(n, {stateChanges:false}) or setValue(v, {triggerQuery:false}))
\* behaves as if the omitted flag were true.
C28_OmittedFlagIsTrue ==
  IsCall(trace) /\ trace[1].op # "constructor" =>
    /\ Len(EventsOf(trace, "request")) =
         (IF FlagOrTrue(trace[1].options, "triggerQuery") THEN 1 ELSE 0)
    /\ Len(EventsOf(trace, "publish")) =
         (IF FlagOrTrue(trace[1].options, "stateChanges") THEN 1 ELSE 0)


---------------------------------------------------------------------------
(* Results and suggestions supplied by the owner *)

MaxSupplyCalls == 2

\* what the owner may pass as results or suggestions
Supplied ==
  {Arr(<<Str("r1")>>), Arr(<<Str("r2")>>), Arr(<<>>), Null, Undefined}

InitSupply ==
  \E cfg \in {BaseConfig, Spread(BaseConfig, Obj("value" :> Str("a")))} :
    New(cfg, Construct(cfg))

SupplyResults ==
  \E results \in Supplied, o \in OptionSets \cup OptionSet :
    CalledWithin(MaxSupplyCalls,
      setResults(Call("setResults", results, o), results, o))

SupplySuggestions ==
  \E suggestions \in Supplied, o \in OptionSets \cup OptionSet :
    CalledWithin(MaxSupplyCalls,
      setSuggestions(Call("setSuggestions", suggestions, o), suggestions, o))

NextSupply ==
  \/ SupplyResults
  \/ SupplySuggestions

SpecSupply == InitSupply /\ [][NextSupply]_vars

\* the field and the callback of the two setters
SupplyField == [setResults |-> "results", setSuggestions |-> "suggestions"]

\* the instance u differs from t in the field k at most
OnlyChanged(t, u, k) == \A f \in DOMAIN t : f # k => u[f] = t[f]

\* C29: setResults and setSuggestions never issue a request, whatever
\* options they are given; with a truthy argument they replace
\* results/suggestions, invoke onResults/onSuggestions and publish when
\* stateChanges is true, and with a falsy argument (null, undefined) they
\* change nothing, invoke no callback and publish nothing.
C29_SuppliedDataNeverRequests ==
  [][(IsCall(trace') /\ trace'[1].op \in DOMAIN SupplyField) =>
       /\ issued' = issued
       /\ inflight' = inflight
       /\ EventsOf(trace', "request") = <<>>
       /\ EventsOf(trace', "fetch") = <<>>
       /\ Truthy(trace'[1].arg) =>
            /\ this'[SupplyField[trace'[1].op]] = NewResults(trace'[1].arg)
            /\ OnlyChanged(this, this', SupplyField[trace'[1].op])
            /\ Len(CallbacksOf(trace',
                   ChangeCallbacks[SupplyField[trace'[1].op]])) = 1
            /\ Len(EventsOf(trace', "callback")) = 1
            /\ Len(EventsOf(trace', "publish")) =
                 (IF Truthy(Get(trace'[1].options, "stateChanges"))
                  THEN 1 ELSE 0)
            /\ \A i \in DOMAIN trace' :
                 trace'[i].e = "publish" =>
                   trace'[i].key = SupplyField[trace'[1].op]
       /\ ~Truthy(trace'[1].arg) =>
            /\ this' = this
            /\ Len(trace') = 1]_vars

\* setResults(['r1'], {triggerQuery: true, stateChanges: true}): results
\* replaced and published, nothing sent
C29_ResultsSuppliedWithTrigger ==
  /\ IsCall(trace)
  /\ trace[1].op = "setResults"
  /\ trace[1].options = defaultOptions
  /\ this.results = NewResults(Arr(<<Str("r1")>>))
  /\ EventsOf(trace, "publish") # <<>>
  /\ EventsOf(trace, "request") = <<>>
  /\ issued = 0


---------------------------------------------------------------------------
(* The suggestions query given to the constructor (Spec) *)

\* C30: when an instance is constructed with a suggestionsQuery override S,
\* the effective suggestions query after construction is built from S (its
\* query part is S.query and S's options override the generated ones),
\* independent of whether and which `query` override was given.
C30_SuggestionsQueryFromOverride ==
  (IsNew(trace) /\ ~Thrown(trace)
   /\ Truthy(Get(trace[1].arg, "suggestionsQuery"))) =>
    /\ this._suggestionsQuery.t = "object"
    /\ \A k \in DOMAIN Get(trace[1].arg, "suggestionsQuery").f :
         Get(this._suggestionsQuery, k) =
           Get(Get(trace[1].arg, "suggestionsQuery"), k)


---------------------------------------------------------------------------
(* The status and the handle (SpecMic) *)

\* C31: in every reachable state, under any interleaving of onMicClick
\* calls and session events (start, result, error) including events of a
\* session delivered after that session was stopped, mic status ACTIVE
\* implies that the instance holds a session handle (micInstance is not
\* null).
C31_ActiveHoldsHandle ==
  micStatus(this) = MIC_ACTIVE => Truthy(this._micInstance)


---------------------------------------------------------------------------
(* What an outcome writes (SpecPipe) *)

\* the field that the outcome of a request of each pipeline writes
OutcomeField ==
  [resolve |-> [results |-> "results", suggestions |-> "suggestions"],
   reject |-> [results |-> "error", suggestions |-> "suggestionsError"]]

\* the value of the field after the outcome x
Written(x, v) == IF x.e = "resolve" THEN v.raw = x.value ELSE v = x.value

====
